---------------------------- MODULE Spec2Model ----------------------------
(* A model of udio_downloader.py: the run of main() as a sequential state  *)
(* machine (one action per step of main, extract_audio_url and             *)
(* download_audio), and the title sanitizer as an operator on strings.     *)
(* Strings are sequences of one-character strings.  The environment (the   *)
(* file system and the HTTP servers) is a nondeterministic choice made at  *)
(* the moment the program calls it.                                        *)
EXTENDS Integers, Sequences, FiniteSets, TLC

VARIABLES
    pc,            \* position of the run
    argv,          \* sys.argv[1:] : <<>> or <<a record describing the URL>>
    dirState,      \* the output directory on disk
    file,          \* the destination file on disk
    file0,         \* the destination file as it was when the run started
    stages,        \* the stages of main() that have started, in order
    outcome,       \* the result of each finished stage ("ok", "fail")
    exitCode,      \* <<process exit status>>, <<>> while the process lives
    unhandled,     \* TRUE once an exception reached the interpreter top level
    page,          \* what the GET of the song page yielded
    all_mp3_urls,  \* re.findall result
    unique_urls,   \* deduplicated candidates
    title_text,    \* group(1) of the <title> match, <<>> when there is no match
    probed,        \* the HEAD requests issued so far: <<[url, status]>>
    audio_url,     \* local of extract_audio_url, then of main
    song_title,    \* local of extract_audio_url, then of main
    requested,     \* TRUE once download_audio issued its GET
    response,      \* what that GET yielded
    file_size,     \* the Content-Length header of the download response
    downloaded,    \* running byte count of download_audio
    chunks,        \* number of chunks iter_content has yielded
    opened,        \* TRUE once open(output_path, 'wb') succeeded
    success,       \* return value of download_audio
    tpc,           \* position of the sanitizer exercise
    raw,           \* input string of the sanitizer exercise
    once,          \* sanitize(raw)
    twice          \* sanitize(sanitize(raw))

vars == <<pc, argv, dirState, file, file0, stages, outcome, exitCode,
          unhandled, all_mp3_urls, unique_urls, title_text, probed,
          audio_url, song_title, requested, file_size, downloaded, chunks,
          opened, success, page, response, tpc, raw, once, twice>>

runVars == <<pc, argv, dirState, file, file0, stages, outcome, exitCode,
             unhandled, all_mp3_urls, unique_urls, title_text, probed,
             audio_url, song_title, requested, file_size, downloaded,
             chunks, opened, success, page, response>>

titleVars == <<tpc, raw, once, twice>>

-----------------------------------------------------------------------------
(* Bounds *)

MaxLinks == 3      \* matches of the asset pattern in a page
MaxChunks == 2     \* chunks a download body is delivered in
MaxTitleLen == 4   \* length of the strings fed to the sanitizer

(* Program constants *)

ChunkSize == 8192
StatusOK == 200

-----------------------------------------------------------------------------
(* Values *)

None == "None"
NoTitle == <<"None">>      \* the None returned in place of a title
NoArg == <<>>              \* sys.argv[1:] when len(sys.argv) < 2
Running == <<>>             \* no exit status yet; <<c>> after exit with c

Hosts == {"www.udio.com", "udio.com"}

\* What urlparse makes of sys.argv[1]: it raises (malformed), or yields a
\* netloc and a path that does or does not contain '/songs/'.
UrlArgs == [malformed : BOOLEAN, netloc : Hosts, songs : BOOLEAN]

Urls == {"u1", "u2", "u3"}   \* strings the asset pattern matches

\* What requests.head does: it raises, or returns a response with a status.
ProbeOutcomes ==
    {[raised |-> FALSE, status_code |-> c] : c \in {200, 204, 404}}
    \cup {[raised |-> TRUE, status_code |-> 0]}

\* Characters: a word character, the underscore (a word character too), the
\* space, another whitespace character, the hyphen, a character of no class
\* the sanitizer keeps, and the pipe (also of no kept class).
Chars == {"a", "_", " ", "\t", "-", "!", "|"}

IsWord(c) == c \in {"a", "_", "u", "d", "i", "o", "s", "n", "g"}
IsSpace(c) == c \in {" ", "\t"}

Strs(n) == UNION {[1..k -> Chars] : k \in 0..n}

Sep == <<" ", "-", " ">>
Bar == <<" ", "|", " ">>
Default == <<"u", "d", "i", "o", "_", "s", "o", "n", "g">>

\* Title texts of the pages served to the run (never empty: [^<]+).
TitleSamples ==
    { <<>>,                                           \* no <title> element
      <<"a">>,                                        \* no ' - '
      <<"a">> \o Sep \o <<"a", " ", "a">> \o Bar \o <<"a">>,
      <<"a">> \o Sep \o <<"a", "-", "a">>,
      <<"a">> \o Sep \o <<"!", "!">> \o Bar \o <<"a">>,
      <<"a">> \o Sep \o <<"a", "\t", "a">> \o Bar \o <<"a">>,
      <<"a">> \o Sep \o <<" ", "a", "!">> \o Sep \o <<"a">> }

-----------------------------------------------------------------------------
(* String functions *)

RECURSIVE LStrip(_)
LStrip(s) == IF s # <<>> /\ IsSpace(Head(s)) THEN LStrip(Tail(s)) ELSE s

RECURSIVE RStrip(_)
RStrip(s) ==
    IF s # <<>> /\ IsSpace(s[Len(s)]) THEN RStrip(SubSeq(s, 1, Len(s) - 1))
    ELSE s

Strip(s) == RStrip(LStrip(s))

RECURSIVE Replace(_, _, _)
Replace(s, old, new) ==
    IF s = <<>> THEN <<>>
    ELSE <<IF Head(s) = old THEN new ELSE Head(s)>>
         \o Replace(Tail(s), old, new)

\* Smallest index at which sep occurs in s, 0 when it does not occur.
Find(s, sep) ==
    LET hits == {i \in 1..(Len(s) - Len(sep) + 1) :
                    SubSeq(s, i, i + Len(sep) - 1) = sep}
    IN IF hits = {} THEN 0 ELSE CHOOSE i \in hits : \A j \in hits : i <= j

Contains(s, sep) == Find(s, sep) # 0

RECURSIVE Split(_, _)
Split(s, sep) ==
    LET i == Find(s, sep)
    IN IF i = 0 THEN <<s>>
       ELSE <<SubSeq(s, 1, i - 1)>>
            \o Split(SubSeq(s, i + Len(sep), Len(s)), sep)

KeepAllowed(c) == IsWord(c) \/ IsSpace(c) \/ c = "-"

\* re.sub(r'[^\w\s-]', '', s) with count = 1: only the first match goes.
RECURSIVE RemoveFirstDisallowed(_)
RemoveFirstDisallowed(s) ==
    IF s = <<>> THEN <<>>
    ELSE IF ~KeepAllowed(Head(s)) THEN Tail(s)
    ELSE <<Head(s)>> \o RemoveFirstDisallowed(Tail(s))

\* re.sub(r'[^\w\s-]', '', s)
RemoveDisallowed(s) == SelectSeq(s, KeepAllowed)

SanitizeFirstOnly(s) == Replace(Strip(RemoveFirstDisallowed(s)), " ", "_")

\* re.sub(r'[^\w\s-]', '', s).strip().replace(' ', '_')
Sanitize(s) == Replace(Strip(RemoveDisallowed(s)), " ", "_")

\* Lines 86-94: the title derived from the page.
DeriveTitle(t) ==
    IF t = <<>> THEN Default
    ELSE LET seg == IF Contains(t, Sep)
                    THEN Strip(Split(Split(t, Sep)[2], Bar)[1])
                    ELSE Default
         IN Sanitize(seg)

\* Lines 55-60: duplicates removed, first occurrences kept in order.
RECURSIVE Dedup(_, _)
Dedup(urls, seen) ==
    IF urls = <<>> THEN <<>>
    ELSE IF Head(urls) \in seen THEN Dedup(Tail(urls), seen)
    ELSE <<Head(urls)>> \o Dedup(Tail(urls), seen \cup {Head(urls)})

\* Line 25, with the bare except of lines 26-27.
is_valid_udio_url(url) ==
    IF url.malformed THEN FALSE
    ELSE url.netloc = "www.udio.com" /\ url.songs


\* Lines 80-83, never falling back: audio_url stays None.
SelectUrlNoFallback(found, candidates) == found

\* Lines 80-83: the URL the probe loop found, else the first candidate.
SelectUrl(found, candidates) ==
    IF found = None THEN candidates[1] ELSE found

-----------------------------------------------------------------------------
(* The environment *)

Absent == [exists |-> FALSE, old |-> FALSE, written |-> 0]
Old == [exists |-> TRUE, old |-> TRUE, written |-> 0]

DirStates == {"dir", "absent", "uncreatable", "notdir"}

HttpResults == {"ok", "httperr", "neterr"}

Links == UNION {[1..k -> Urls] : k \in 0..MaxLinks}

DeclaredLens == {0, 1, ChunkSize, ChunkSize + 1, 2 * ChunkSize}
ChunkLens == {1, ChunkSize}

\* The Content-Length header: absent, the empty string, a string int()
\* rejects, or a decimal number.
Headers ==
    {[kind |-> k, n |-> 0] : k \in {"absent", "empty", "garbage"}}
    \cup {[kind |-> "int", n |-> k] : k \in DeclaredLens}

NoHeader == [kind |-> "absent", n |-> 0]

\* Python truthiness of headers.get('Content-Length').
Truthy(h) == h.kind \in {"garbage", "int"}

-----------------------------------------------------------------------------
(* Initial states *)

RunFresh ==
    /\ stages = <<>>
    /\ outcome = <<>>
    /\ exitCode = Running
    /\ unhandled = FALSE
    /\ all_mp3_urls = <<>>
    /\ unique_urls = <<>>
    /\ title_text = <<>>
    /\ probed = <<>>
    /\ audio_url = None
    /\ song_title = NoTitle
    /\ requested = FALSE
    /\ file_size = NoHeader
    /\ downloaded = 0
    /\ chunks = 0
    /\ opened = FALSE
    /\ success = FALSE
    /\ page = "unfetched"
    /\ response = "none"

TitleIdle ==
    /\ tpc = "off"
    /\ raw = <<>>
    /\ once = <<>>
    /\ twice = <<>>

Init ==
    /\ pc = "validate"
    /\ argv \in {NoArg} \cup {<<u>> : u \in UrlArgs}
    /\ dirState \in DirStates
    /\ file \in (IF dirState = "dir" THEN {Absent, Old} ELSE {Absent})
    /\ file0 = file
    /\ RunFresh
    /\ TitleIdle

-----------------------------------------------------------------------------
(* main(), lines 151-190 *)

Exit(code, result) ==
    /\ exitCode' = <<code>>
    /\ outcome' = Append(outcome, result)
    /\ pc' = "done"

\* Lines 153-165.
Validate ==
    /\ pc = "validate"
    /\ stages' = Append(stages, "Validate")
    /\ IF argv = NoArg \/ ~is_valid_udio_url(argv[1])
       THEN Exit(1, "fail")
       ELSE /\ outcome' = Append(outcome, "ok")
            /\ pc' = "ensuredir"
            /\ UNCHANGED exitCode
    /\ UNCHANGED <<argv, dirState, file, file0, unhandled, all_mp3_urls,
                   unique_urls, title_text, probed, audio_url, song_title,
                   requested, file_size, downloaded, chunks, opened,
                   success, titleVars, page, response>>

\* Lines 168-170.  os.makedirs is called outside any try: when it raises,
\* the exception reaches the interpreter, which prints a traceback and
\* ends the process with status 1.
EnsureDir ==
    /\ pc = "ensuredir"
    /\ stages' = Append(stages, "EnsureDir")
    /\ CASE dirState = "absent" ->
              /\ dirState' = "dir"
              /\ outcome' = Append(outcome, "ok")
              /\ pc' = "fetch"
              /\ UNCHANGED <<exitCode, unhandled>>
         [] dirState = "uncreatable" ->
              /\ unhandled' = TRUE
              /\ Exit(1, "fail")
              /\ UNCHANGED dirState
         [] OTHER ->
              /\ outcome' = Append(outcome, "ok")
              /\ pc' = "fetch"
              /\ UNCHANGED <<dirState, exitCode, unhandled>>
    /\ UNCHANGED <<argv, file, file0, all_mp3_urls, unique_urls, title_text,
                   probed, audio_url, song_title, requested, file_size,
                   downloaded, chunks, opened, success, titleVars, page,
                   response>>

\* Lines 175-177, with the test of line 175 dropped.
CheckExtractAlways ==
    /\ pc = "check_extract"
    /\ outcome' = Append(outcome, "ok")
    /\ pc' = "composepath"
    /\ UNCHANGED <<argv, dirState, file, file0, stages, exitCode, unhandled,
                   all_mp3_urls, unique_urls, title_text, probed, audio_url,
                   song_title, requested, file_size, downloaded, chunks,
                   opened, success, titleVars, page, response>>

\* Lines 175-177.
CheckExtract ==
    /\ pc = "check_extract"
    /\ IF audio_url = None
       THEN Exit(1, "fail")
       ELSE /\ outcome' = Append(outcome, "ok")
            /\ pc' = "composepath"
            /\ UNCHANGED exitCode
    /\ UNCHANGED <<argv, dirState, file, file0, stages, unhandled,
                   all_mp3_urls, unique_urls, title_text, probed, audio_url,
                   song_title, requested, file_size, downloaded, chunks,
                   opened, success, titleVars, page, response>>

\* Line 180.
ComposePath ==
    /\ pc = "composepath"
    /\ stages' = Append(stages, "ComposePath")
    /\ outcome' = Append(outcome, "ok")
    /\ pc' = "request"
    /\ UNCHANGED <<argv, dirState, file, file0, exitCode, unhandled,
                   all_mp3_urls, unique_urls, title_text, probed, audio_url,
                   song_title, requested, file_size, downloaded, chunks,
                   opened, success, titleVars, page, response>>

\* Lines 185-190, reporting completion whatever download_audio returned.
CheckDownloadIgnoring ==
    /\ pc = "check_download"
    /\ Exit(0, IF success THEN "ok" ELSE "fail")
    /\ UNCHANGED <<argv, dirState, file, file0, stages, unhandled,
                   all_mp3_urls, unique_urls, title_text, probed, audio_url,
                   song_title, requested, file_size, downloaded, chunks,
                   opened, success, titleVars, page, response>>

\* Lines 185-190.
CheckDownload ==
    /\ pc = "check_download"
    /\ IF ~success THEN Exit(1, "fail") ELSE Exit(0, "ok")
    /\ UNCHANGED <<argv, dirState, file, file0, stages, unhandled,
                   all_mp3_urls, unique_urls, title_text, probed, audio_url,
                   song_title, requested, file_size, downloaded, chunks,
                   opened, success, titleVars, page, response>>

-----------------------------------------------------------------------------
(* extract_audio_url(), lines 30-104 *)

ReturnNone ==
    /\ audio_url' = None
    /\ song_title' = NoTitle
    /\ pc' = "check_extract"

\* Lines 44-45 raising: the handlers of lines 99-104 return (None, None).
FetchFail ==
    /\ pc = "fetch"
    /\ stages' = Append(stages, "Extract")
    /\ \E r \in HttpResults \ {"ok"} : page' = r
    /\ ReturnNone
    /\ UNCHANGED <<argv, dirState, file, file0, outcome, exitCode, unhandled,
                   all_mp3_urls, unique_urls, title_text, probed, requested,
                   file_size, downloaded, chunks, opened, success,
                   titleVars, response>>

\* Lines 44-62 with a page received.
FetchPage ==
    /\ pc = "fetch"
    /\ stages' = Append(stages, "Extract")
    /\ \E links \in Links, t \in TitleSamples :
          IF links = <<>>
          THEN /\ page' = "no_links"
               /\ ReturnNone
               /\ UNCHANGED <<all_mp3_urls, unique_urls, title_text>>
          ELSE /\ page' = "links"
               /\ all_mp3_urls' = links
               /\ title_text' = t
               /\ unique_urls' = Dedup(links, {})
               /\ pc' = "probe"
               /\ UNCHANGED <<audio_url, song_title>>
    /\ UNCHANGED <<argv, dirState, file, file0, outcome, exitCode, unhandled,
                   probed, requested, file_size, downloaded, chunks, opened,
                   success, titleVars, response>>

\* Lines 66-78 without the break of line 73.
ProbeNoBreak ==
    /\ pc = "probe"
    /\ LET url == unique_urls[Len(probed) + 1]
       IN \E o \in ProbeOutcomes :
             /\ probed' = Append(probed, [url |-> url, outcome |-> o])
             /\ audio_url' = IF ~o.raised /\ o.status_code = StatusOK
                             THEN url ELSE audio_url
             /\ pc' = IF Len(probed') = Len(unique_urls)
                      THEN "select" ELSE "probe"
    /\ UNCHANGED <<argv, dirState, file, file0, stages, outcome, exitCode,
                   unhandled, all_mp3_urls, unique_urls, title_text,
                   song_title, requested, file_size, downloaded, chunks,
                   opened, success, titleVars, page, response>>

\* Lines 66-78: one iteration of the probe loop.
Probe ==
    /\ pc = "probe"
    /\ LET url == unique_urls[Len(probed) + 1]
       IN \E o \in ProbeOutcomes :
             /\ probed' = Append(probed, [url |-> url, outcome |-> o])
             /\ IF ~o.raised /\ o.status_code = StatusOK
                THEN /\ audio_url' = url
                     /\ pc' = "select"
                ELSE /\ UNCHANGED audio_url
                     /\ pc' = IF Len(probed') = Len(unique_urls)
                              THEN "select" ELSE "probe"
    /\ UNCHANGED <<argv, dirState, file, file0, stages, outcome, exitCode,
                   unhandled, all_mp3_urls, unique_urls, title_text,
                   song_title, requested, file_size, downloaded, chunks,
                   opened, success, titleVars, page, response>>

\* Lines 80-97: fallback, title, return.  The locals of the function (the
\* response, the matches and the candidates) end with the call.
SelectAndTitle ==
    /\ pc = "select"
    /\ audio_url' = SelectUrl(audio_url, unique_urls)
    /\ song_title' = DeriveTitle(title_text)
    /\ all_mp3_urls' = <<>>
    /\ unique_urls' = <<>>
    /\ title_text' = <<>>
    /\ pc' = "check_extract"
    /\ UNCHANGED <<argv, dirState, file, file0, stages, outcome, exitCode,
                   unhandled, probed, requested, file_size, downloaded,
                   chunks, opened, success, titleVars, page, response>>

-----------------------------------------------------------------------------
(* download_audio(), lines 107-148 *)

ReturnFalse ==
    /\ success' = FALSE
    /\ pc' = "check_download"

\* Lines 121-128 with the destination opened before the request is made.
RequestTruncatingFirst ==
    /\ pc = "request"
    /\ stages' = Append(stages, "Download")
    /\ requested' = TRUE
    /\ file' = IF dirState = "dir"
               THEN [exists |-> TRUE, old |-> FALSE, written |-> 0]
               ELSE file
    /\ \E r \in HttpResults, h \in Headers :
          IF r # "ok"
          THEN /\ response' = r
               /\ ReturnFalse
               /\ UNCHANGED file_size
          ELSE /\ response' = r
               /\ file_size' = h
               /\ IF h.kind = "garbage"
                  THEN ReturnFalse
                  ELSE pc' = "open" /\ UNCHANGED success
    /\ UNCHANGED <<argv, dirState, file0, outcome, exitCode, unhandled,
                   all_mp3_urls, unique_urls, title_text, probed, audio_url,
                   song_title, downloaded, chunks, opened, titleVars, page>>

\* Lines 121-128: the GET, raise_for_status, and int(file_size).
Request ==
    /\ pc = "request"
    /\ stages' = Append(stages, "Download")
    /\ requested' = TRUE
    /\ \E r \in HttpResults, h \in Headers :
          IF r # "ok"
          THEN /\ response' = r
               /\ ReturnFalse
               /\ UNCHANGED file_size
          ELSE /\ response' = r
               /\ file_size' = h
               /\ IF h.kind = "garbage"
                  THEN ReturnFalse
                  ELSE pc' = "open" /\ UNCHANGED success
    /\ UNCHANGED <<argv, dirState, file, file0, outcome, exitCode, unhandled,
                   all_mp3_urls, unique_urls, title_text, probed, audio_url,
                   song_title, downloaded, chunks, opened, titleVars, page>>

\* Lines 131-132: open(output_path, 'wb') creates or truncates the file, or
\* raises (the directory is not a directory, permissions).
Open ==
    /\ pc = "open"
    /\ downloaded' = 0
    /\ \E permitted \in BOOLEAN :
          IF dirState = "dir" /\ permitted
          THEN /\ file' = [exists |-> TRUE, old |-> FALSE, written |-> 0]
               /\ opened' = TRUE
               /\ pc' = "stream"
               /\ UNCHANGED success
          ELSE /\ ReturnFalse
               /\ UNCHANGED <<file, opened>>
    /\ UNCHANGED <<argv, dirState, file0, stages, outcome, exitCode,
                   unhandled, all_mp3_urls, unique_urls, title_text, probed,
                   audio_url, song_title, requested, file_size, chunks,
                   titleVars, page, response>>

\* Lines 133-138: one chunk arrives and is written; the progress division
\* of line 137 raises ZeroDivisionError when int(file_size) is 0.
StreamChunk ==
    /\ pc = "stream"
    /\ chunks < MaxChunks
    /\ \E n \in ChunkLens :
          /\ file' = [file EXCEPT !.written = @ + n]
          /\ downloaded' = downloaded + n
    /\ chunks' = chunks + 1
    /\ IF Truthy(file_size) /\ file_size.n = 0
       THEN ReturnFalse
       ELSE UNCHANGED <<pc, success>>
    /\ UNCHANGED <<argv, dirState, file0, stages, outcome, exitCode,
                   unhandled, all_mp3_urls, unique_urls, title_text, probed,
                   audio_url, song_title, requested, file_size, opened,
                   titleVars, page, response>>

\* Lines 133-134 raising: the connection breaks, or the write fails.
StreamError ==
    /\ pc = "stream"
    /\ ReturnFalse
    /\ UNCHANGED <<argv, dirState, file, file0, stages, outcome, exitCode,
                   unhandled, all_mp3_urls, unique_urls, title_text, probed,
                   audio_url, song_title, requested, file_size, downloaded,
                   chunks, opened, titleVars, page, response>>

\* Lines 140-144: the iterator is exhausted; the file is closed.
StreamEnd ==
    /\ pc = "stream"
    /\ success' = TRUE
    /\ pc' = "check_download"
    /\ UNCHANGED <<argv, dirState, file, file0, stages, outcome, exitCode,
                   unhandled, all_mp3_urls, unique_urls, title_text, probed,
                   audio_url, song_title, requested, file_size, downloaded,
                   chunks, opened, titleVars, page, response>>

-----------------------------------------------------------------------------
(* The run *)

Next ==
    \/ Validate
    \/ EnsureDir
    \/ FetchFail
    \/ FetchPage
    \/ Probe
    \/ SelectAndTitle
    \/ CheckExtract
    \/ ComposePath
    \/ Request
    \/ Open
    \/ StreamChunk
    \/ StreamError
    \/ StreamEnd
    \/ CheckDownload

Spec == Init /\ [][Next]_vars

-----------------------------------------------------------------------------
(* The sanitizer on its own *)

RunIdle ==
    /\ pc = "idle"
    /\ argv = NoArg
    /\ dirState = "dir"
    /\ file = Absent
    /\ file0 = Absent
    /\ RunFresh

InitTitle ==
    /\ RunIdle
    /\ tpc = "start"
    /\ raw \in Strs(MaxTitleLen)
    /\ once = <<>>
    /\ twice = <<>>

\* Line 94 applied to raw.
SanitizeOnce ==
    /\ tpc = "start"
    /\ once' = Sanitize(raw)
    /\ tpc' = "once"
    /\ UNCHANGED <<raw, twice, runVars>>

\* Line 94 applied to its own result.
SanitizeTwice ==
    /\ tpc = "once"
    /\ twice' = Sanitize(once)
    /\ tpc' = "twice"
    /\ UNCHANGED <<raw, once, runVars>>

NextTitle == SanitizeOnce \/ SanitizeTwice

SpecTitle == InitTitle /\ [][NextTitle]_vars

-----------------------------------------------------------------------------
(* Vocabulary of the properties *)

StageOrder == <<"Validate", "EnsureDir", "Extract", "ComposePath", "Download">>

IsPrefix(s, t) == Len(s) <= Len(t) /\ s = SubSeq(t, 1, Len(s))

AllOk == [i \in 1..Len(StageOrder) |-> "ok"]

\* extract_audio_url has returned to main.
Returned == pc \in {"check_extract", "composepath", "request", "open",
                    "stream", "check_download", "done"}

\* download_audio has returned to main.
Downloaded == pc \in {"check_download", "done"}

\* The probe got a response whose status the loop accepts (line 70).
Succeeded(p) == ~p.outcome.raised /\ p.outcome.status_code = StatusOK

NoProbeSucceeded == \A i \in 1..Len(probed) : ~Succeeded(probed[i])

FirstIndex(s, x) ==
    CHOOSE i \in 1..Len(s) : s[i] = x /\ \A j \in 1..(i - 1) : s[j] # x

\* u lists the elements of a once each, ordered by first occurrence in a.
IsDedupOf(u, a) ==
    /\ {u[i] : i \in 1..Len(u)} = {a[i] : i \in 1..Len(a)}
    /\ \A i, j \in 1..Len(u) :
          i < j => /\ u[i] # u[j]
                   /\ FirstIndex(a, u[i]) < FirstIndex(a, u[j])

-----------------------------------------------------------------------------
(* Properties *)

\* C1: the stages of main run in the order Validate, EnsureDir, Extract,
\* ComposePath, Download; a failed stage is the last stage of the run and
\* the run then ends with exit code 1; the exit code is 0 exactly when all
\* five stages succeeded.
C1_StagesInOrder ==
    /\ IsPrefix(stages, StageOrder)
    /\ Len(outcome) \in {Len(stages) - 1, Len(stages)}
    /\ \A i \in 1..Len(outcome) :
          outcome[i] = "fail"
             => i = Len(stages) /\ pc = "done" /\ exitCode = <<1>>
    /\ pc # "done" => exitCode = Running
    /\ pc = "done" =>
          /\ exitCode \in {<<0>>, <<1>>}
          /\ Len(outcome) = Len(stages)
          /\ exitCode = <<0>> <=> outcome = AllOk
          /\ exitCode = <<1>> <=> outcome[Len(outcome)] = "fail"

C1_Witness ==
    /\ pc = "done"
    /\ exitCode = <<1>>
    /\ stages = <<"Validate", "EnsureDir", "Extract">>
    /\ outcome = <<"ok", "ok", "fail">>

\* C2: no exception reaches the interpreter top level.
C2_NoUnhandledException == unhandled = FALSE

\* C3: whenever extract_audio_url returns an audio URL, the title it
\* returns is not the empty string.
C3_TitleNeverEmpty ==
    (Returned /\ audio_url # None) => song_title # <<>>

\* C4: the title extract_audio_url returns consists of word characters and
\* hyphens only.
C4_TitleCharacters ==
    (Returned /\ audio_url # None) =>
        \A i \in 1..Len(song_title) :
            IsWord(song_title[i]) \/ song_title[i] = "-"

\* C5: the candidates are the matches deduplicated in discovery order; they
\* are probed in that order; every probe before the last one issued failed;
\* the loop goes on exactly while no probe has succeeded and candidates
\* remain; a successful probe is the last one and its URL is the one
\* selected.
C5_ProbeOrder ==
    /\ pc \in {"probe", "select"} =>
          /\ IsDedupOf(unique_urls, all_mp3_urls)
          /\ Len(probed) <= Len(unique_urls)
          /\ \A i \in 1..Len(probed) : probed[i].url = unique_urls[i]
          /\ pc = "probe" =>
                /\ NoProbeSucceeded
                /\ Len(probed) < Len(unique_urls)
                /\ audio_url = None
          /\ (pc = "select" /\ NoProbeSucceeded) =>
                /\ Len(probed) = Len(unique_urls)
                /\ audio_url = None
    /\ \A i \in 1..Len(probed) :
          Succeeded(probed[i]) =>
             /\ i = Len(probed)
             /\ audio_url = probed[i].url
             /\ pc # "probe"

C5_Witness ==
    /\ pc = "select"
    /\ Len(unique_urls) = 3
    /\ Len(probed) = 2
    /\ probed[1].outcome.raised
    /\ Succeeded(probed[2])
    /\ audio_url = unique_urls[2]

\* C6: when the page has candidates and every probe failed, the URL
\* returned is the first candidate, main takes the extraction as a success
\* and the run reaches the download request.
C6_Fallback ==
    /\ (pc \in {"probe", "select"} /\ probed # <<>>) =>
          probed[1].url = all_mp3_urls[1]
    /\ (Returned /\ probed # <<>> /\ NoProbeSucceeded) =>
          /\ audio_url = probed[1].url
          /\ audio_url # None
          /\ pc # "check_extract" => Len(outcome) >= 3 /\ outcome[3] = "ok"
          /\ pc = "done" => requested /\ Len(stages) = 5

C6_Witness ==
    /\ pc = "done"
    /\ Len(probed) = 3
    /\ NoProbeSucceeded
    /\ audio_url = probed[1].url
    /\ requested

\* C7: when the page has no matching link, extraction returns no audio
\* URL, no probe and no download request is made, the destination file is
\* never opened or changed, and the run exits with code 1.
C7_NoLinks ==
    page = "no_links" =>
        /\ pc \in {"check_extract", "done"}
        /\ audio_url = None
        /\ probed = <<>>
        /\ ~requested
        /\ ~opened
        /\ file = file0
        /\ pc = "done" => exitCode = <<1>>

C7_Witness ==
    /\ page = "no_links"
    /\ pc = "done"
    /\ exitCode = <<1>>
    /\ file0 = Absent
    /\ file = Absent

\* C8: when download_audio returns success for a response that declared a
\* content length, the bytes written equal the declared length.
C8_SizeMatchesDeclared ==
    (Downloaded /\ success /\ file_size.kind = "int") =>
        file.written = file_size.n

\* C9: sanitizing a sanitized string changes nothing.
C9_Idempotent == tpc = "twice" => twice = once

C9_Witness ==
    /\ tpc = "twice"
    /\ once # raw
    /\ once # <<>>
    /\ twice = once

\* C10: the destination file is created or truncated only after the
\* download request succeeded and the Content-Length header was parsed;
\* when the request raises, returns an error status, or the header cannot
\* be parsed, download_audio returns failure and the file is as it was; a
\* file changed by a failed download was opened first.
C10_OpenAfterRequest ==
    /\ file # file0 =>
          /\ opened
          /\ response = "ok"
          /\ file_size.kind # "garbage"
    /\ ~opened => file = file0
    /\ (Downloaded /\ (response \in {"neterr", "httperr"}
                       \/ file_size.kind = "garbage")) =>
          /\ ~success
          /\ ~opened
          /\ file = file0

C10_Witness ==
    /\ pc = "done"
    /\ response = "ok"
    /\ file_size.kind = "garbage"
    /\ file0 = Old
    /\ file = Old
    /\ exitCode = <<1>>

=============================================================================
